---------------------------- MODULE Spec2Model ----------------------------
(***************************************************************************)
(* Payment-link status synchronisation: the in-memory link store           *)
(* (MemStorage), the HTTP routes that create, delete, check, archive and   *)
(* renew links, the page prober checkPaymentPage, the dashboard's         *)
(* periodic check of the links it has cached, the WebSocket server that    *)
(* fans change events out, and the browser's reconnecting connection.      *)
(*                                                                         *)
(* Texts are sequences of symbols.  A symbol is one character, except that *)
(* each fixed phrase the prober looks for is one symbol:                   *)
(*   "F"  the phrase "Sorry, something went wrong"                         *)
(*   "T"  the label "SP Transaction No"                                    *)
(*   "A"  the label "Amount"                                               *)
(*   "E"  the currency label "AED"                                         *)
(*   " "  a whitespace character, "1" "2" digits, "," a comma or a dot,    *)
(*   "x"  any other character.                                             *)
(* JavaScript's null and undefined are both Null (the ?? operator and the  *)
(* stored record do not tell them apart).                                  *)
(***************************************************************************)
EXTENDS Integers, Sequences, FiniteSets, Bags, TLC

VARIABLES
    paymentLinks,   \* MemStorage.paymentLinks: link id -> PaymentLink
    currentLinkId,  \* MemStorage.currentLinkId
    now,            \* the wall clock read by new Date()
    probes,         \* check handlers suspended in fetch: records [id, url]
    cache,          \* the dashboard's cached list: link id -> PaymentLink
    requests,       \* check requests of the dashboard not yet received
    fetchedPage,    \* prober alone: what its fetch produced
    probeResult,    \* prober alone: what checkPaymentPage made of it
    clients,        \* wss.clients, in insertion order, each with what it got
    published,      \* number of broadcastUpdate calls so far
    ws,             \* the browser's module variable ws: a socket or NoSocket
    socks,          \* the browser's sockets not yet closed: id -> readyState
    reconnectAttempts, \* the browser's module variable reconnectAttempts
    timers,         \* pending setTimeout(connectWebSocket, delay): bag of delays
    mounted,        \* components with the effect of usePaymentLinks mounted
    activations,    \* number of mounts so far
    failures,       \* connection attempts failed since the start, EverOpened
                    \* once an attempt has opened
    stale,          \* the query ["/api/payment-links"] is invalidated
    inbox,          \* messages sent to the browser's sockets and not yet
                    \* handled: records [to, event]; one message that is
                    \* sent twice to a socket before it is handled is one
                    \* record
    elapsed         \* ms since the interval of PaymentLinkGrid was set or
                    \* last fired

vars == <<paymentLinks, currentLinkId, now, probes, cache, requests,
          fetchedPage, probeResult, clients, published,
          ws, socks, reconnectAttempts, timers, mounted, activations,
          failures, stale, inbox, elapsed>>

--------------------------------------------------------------------------
(* Bounds of the model *)

MaxLinks == 1

MaxTime == 1

MaxProbes == 1

MaxFragments == 3

MaxSockets == 2

MaxPublishes == 2

MaxClientSockets == 2

MaxActivations == 2

MaxTimers == 2

--------------------------------------------------------------------------
(* Values *)

Null == <<"null">>

Anonymous == 0

Users == {1, 2}

Callers == Users \cup {Anonymous}

ViewUser == 1

LinkIds == 1..MaxLinks

Urls == {<<"u1">>, <<"u2">>}

Amounts == {100}

WS == {" "}

Digits == {"1", "2"}

NumChars == Digits \cup {","}

(* The literal of src/unnamed/part_002 line 411 *)
GenericErrorCode == <<"generic">>

--------------------------------------------------------------------------
(* checkPaymentPage: fetch, then classify the page text *)

(* The first index >= i of text whose symbol is not in S (Len+1 if none):
   where a greedy S* starting at i stops. *)
RECURSIVE SkipWhile(_, _, _)
SkipWhile(text, i, S) ==
    IF i > Len(text) THEN i
    ELSE IF text[i] \in S THEN SkipWhile(text, i + 1, S)
    ELSE i

includesFailureMarker(text) ==
    \E i \in 1..Len(text) : text[i] = "F"

(* /SP Transaction No\s+(\d+)/ tried at start position i: the capture, or
   Null when the pattern does not match there. *)
transactionAt(text, i) ==
    IF i > Len(text) \/ text[i] # "T" THEN Null
    ELSE LET j == SkipWhile(text, i + 1, WS)
             k == SkipWhile(text, j, Digits)
         IN  IF j > i + 1 /\ k > j THEN SubSeq(text, j, k - 1) ELSE Null

(* A variant of amountAt that does not ask for the currency after the
   number. *)
amountAtMissingCurrency(text, i) ==
    IF i > Len(text) \/ text[i] # "A" THEN Null
    ELSE LET j == SkipWhile(text, i + 1, WS)
             k == SkipWhile(text, j, NumChars)
         IN  IF j > i + 1 /\ k > j THEN SubSeq(text, j, k - 1) ELSE Null

(* /Amount\s+([\d,.]+)\s*AED/ tried at start position i. *)
amountAt(text, i) ==
    IF i > Len(text) \/ text[i] # "A" THEN Null
    ELSE LET j == SkipWhile(text, i + 1, WS)
             k == SkipWhile(text, j, NumChars)
             m == SkipWhile(text, k, WS)
         IN  IF j > i + 1 /\ k > j /\ m <= Len(text) /\ text[m] = "E"
             THEN SubSeq(text, j, k - 1)
             ELSE Null

(* String.prototype.match without the g flag: the leftmost match. *)
RECURSIVE transactionFrom(_, _)
transactionFrom(text, i) ==
    IF i > Len(text) THEN Null
    ELSE IF transactionAt(text, i) # Null THEN transactionAt(text, i)
    ELSE transactionFrom(text, i + 1)

RECURSIVE amountFrom(_, _)
amountFrom(text, i) ==
    IF i > Len(text) THEN Null
    ELSE IF amountAt(text, i) # Null THEN amountAt(text, i)
    ELSE amountFrom(text, i + 1)

transactionMatch(text) == transactionFrom(text, 1)

amountMatch(text) == amountFrom(text, 1)

Returned(isActive, errorCode, transactionNo, amountAED) ==
    [threw |-> FALSE, code |-> "NONE", isActive |-> isActive,
     errorCode |-> errorCode, transactionNo |-> transactionNo,
     amountAED |-> amountAED]

Thrown(code) ==
    [threw |-> TRUE, code |-> code, isActive |-> FALSE,
     errorCode |-> Null, transactionNo |-> Null, amountAED |-> Null]

(* A variant of classify that looks for the tokens before the failure
   phrase. *)
classifyTokensFirst(text) ==
    IF transactionMatch(text) # Null \/ amountMatch(text) # Null
    THEN Returned(TRUE, Null, transactionMatch(text), amountMatch(text))
    ELSE IF includesFailureMarker(text)
    THEN Returned(FALSE, GenericErrorCode, Null, Null)
    ELSE Thrown("INVALID_FORMAT")

(* A variant of classify that asks for both tokens. *)
classifyRequireBoth(text) ==
    IF includesFailureMarker(text)
    THEN Returned(FALSE, GenericErrorCode, Null, Null)
    ELSE IF transactionMatch(text) = Null \/ amountMatch(text) = Null
    THEN Thrown("INVALID_FORMAT")
    ELSE Returned(TRUE, Null, transactionMatch(text), amountMatch(text))

(* The body of checkPaymentPage after a successful fetch. *)
classify(text) ==
    IF includesFailureMarker(text)
    THEN Returned(FALSE, GenericErrorCode, Null, Null)
    ELSE IF transactionMatch(text) = Null /\ amountMatch(text) = Null
    THEN Thrown("INVALID_FORMAT")
    ELSE Returned(TRUE, Null, transactionMatch(text), amountMatch(text))

(* fetched is what fetch(url) produced: a rejection (network failure), a
   response that is not ok, or an ok response with its text. *)
checkPaymentPage(fetched) ==
    IF fetched.kind = "rejected" THEN Thrown("CHECK_ERROR")
    ELSE IF fetched.kind = "not_ok" THEN Thrown("FETCH_ERROR")
    ELSE classify(fetched.text)

--------------------------------------------------------------------------
(* MemStorage *)

Coalesce(a, b) == IF a = Null THEN b ELSE a

(* A variant of getPaymentLinks that returns the links of every user. *)
getPaymentLinksOfEveryone(links, userId) == DOMAIN links

getPaymentLinks(links, userId) ==
    {id \in DOMAIN links : links[id].userId = userId}

createPaymentLink(links, id, userId, link, date) ==
    [i \in DOMAIN links \cup {id} |->
        IF i = id
        THEN [id |-> id, userId |-> userId, url |-> link.url,
              amount |-> link.amount, status |-> "active",
              errorCode |-> Null, lastChecked |-> date,
              transactionNo |-> Null, amountAED |-> Null,
              archived |-> FALSE]
        ELSE links[i]]

deletePaymentLink(links, id) ==
    [i \in DOMAIN links \ {id} |-> links[i]]

(* A variant of updatePaymentLinkStatus with errorCode ?? link.errorCode. *)
updatePaymentLinkStatusKeepsErrorCode(links, id, status, errorCode, transactionNo, amountAED, date) ==
    [links EXCEPT ![id] =
        [@ EXCEPT !.status = status,
                  !.errorCode = Coalesce(errorCode, @),
                  !.lastChecked = date,
                  !.transactionNo = Coalesce(transactionNo, @),
                  !.amountAED = Coalesce(amountAED, @)]]

(* A variant of updatePaymentLinkStatus that stores the errorCode only when
   the status changes, and clears it when the status is the one stored. *)
updatePaymentLinkStatusOnTransition(links, id, status, errorCode, transactionNo, amountAED, date) ==
    [links EXCEPT ![id] =
        [@ EXCEPT !.status = status,
                  !.errorCode = IF links[id].status = status
                                THEN Null ELSE Coalesce(errorCode, Null),
                  !.lastChecked = date,
                  !.transactionNo = Coalesce(transactionNo, @),
                  !.amountAED = Coalesce(amountAED, @)]]

(* A variant of updatePaymentLinkStatus without the ?? on transactionNo and
   amountAED. *)
updatePaymentLinkStatusOverwrites(links, id, status, errorCode, transactionNo, amountAED, date) ==
    [links EXCEPT ![id] =
        [@ EXCEPT !.status = status,
                  !.errorCode = Coalesce(errorCode, Null),
                  !.lastChecked = date,
                  !.transactionNo = transactionNo,
                  !.amountAED = amountAED]]

(* Called only for an id of the map: the handlers below take the branch of
   the thrown "Payment link not found" when the id is missing. *)
updatePaymentLinkStatus(links, id, status, errorCode, transactionNo, amountAED, date) ==
    [links EXCEPT ![id] =
        [@ EXCEPT !.status = status,
                  !.errorCode = Coalesce(errorCode, Null),
                  !.lastChecked = date,
                  !.transactionNo = Coalesce(transactionNo, @),
                  !.amountAED = Coalesce(amountAED, @)]]

(* A variant of updatePaymentLinkUrl that stores the renewed link as a
   fresh one, not archived. *)
updatePaymentLinkUrlUnarchives(links, id, url) ==
    [links EXCEPT ![id] = [@ EXCEPT !.url = url, !.archived = FALSE]]

updatePaymentLinkUrl(links, id, url) ==
    [links EXCEPT ![id] = [@ EXCEPT !.url = url]]

(* A variant of archivePaymentLink that archives every link of the owner of
   the link. *)
archivePaymentLinkOfOwner(links, id) ==
    [i \in DOMAIN links |->
        IF links[i].userId = links[id].userId
        THEN [links[i] EXCEPT !.archived = TRUE] ELSE links[i]]

archivePaymentLink(links, id) ==
    [links EXCEPT ![id] = [@ EXCEPT !.archived = TRUE]]

(* deletePaymentLink and archivePaymentLink throw for a link that is
   missing or belongs to another user. *)
OwnedBy(links, id, userId) ==
    id \in DOMAIN links /\ links[id].userId = userId

--------------------------------------------------------------------------
(* errors.ts and what a route hands back *)

Response(status, code) == [status |-> status, code |-> code]

(* res.sendStatus(401) of a request that is not authenticated *)
Unauthenticated == Response(401, "NONE")

(* handleError of a PaymentLinkError: status 400 and its code *)
PaymentLinkError(code) == Response(400, code)

(* handleError of a plain Error thrown by the storage: AppError's default
   status 500 and no code *)
StorageError == Response(500, "NONE")

broadcastUpdate(type, action, id) ==
    <<[type |-> type, action |-> action, id |-> id]>>

NoEvents == <<>>

(* What one run of a route does: the link map it leaves, its HTTP response
   and the events it broadcast. *)
Done(links, resp, events) ==
    [links |-> links, response |-> resp, events |-> events]

(* A route that ended in its catch block or at the authentication gate. *)
Failed(links, resp) == Done(links, resp, NoEvents)

--------------------------------------------------------------------------
(* The routes of setupAPIRoutes, as functions of the stored links and the
   request.  MemStorage's methods complete without I/O, so a route runs from
   its first storage call to its response with no other handler in between;
   only the check route is suspended, in the fetch of checkPaymentPage. *)

(* POST /api/payment-links *)
postCreate(links, id, caller, valid, link, date) ==
    IF caller = Anonymous THEN Failed(links, Unauthenticated)
    ELSE IF ~valid THEN Failed(links, PaymentLinkError("VALIDATION_ERROR"))
    ELSE Done(createPaymentLink(links, id, caller, link, date),
              Response(201, "NONE"),
              broadcastUpdate("payment_link_update", "create", id))

(* A variant of the DELETE route that broadcasts before it calls the
   storage. *)
deleteLinkBroadcastsFirst(links, caller, id) ==
    IF caller = Anonymous THEN Failed(links, Unauthenticated)
    ELSE IF ~OwnedBy(links, id, caller)
    THEN [Failed(links, StorageError) EXCEPT
             !.events = broadcastUpdate("payment_link_update", "delete", id)]
    ELSE Done(deletePaymentLink(links, id),
              Response(204, "NONE"),
              broadcastUpdate("payment_link_update", "delete", id))

(* DELETE /api/payment-links/:id *)
deleteLink(links, caller, id) ==
    IF caller = Anonymous THEN Failed(links, Unauthenticated)
    ELSE IF ~OwnedBy(links, id, caller) THEN Failed(links, StorageError)
    ELSE Done(deletePaymentLink(links, id),
              Response(204, "NONE"),
              broadcastUpdate("payment_link_update", "delete", id))

(* POST /api/payment-links/:id/check up to its await of checkPaymentPage:
   either the route ends, or it is suspended in fetch with the link found. *)
postCheckLookup(links, caller, id) ==
    IF caller = Anonymous THEN Failed(links, Unauthenticated)
    ELSE IF id \notin getPaymentLinks(links, caller)
    THEN Failed(links, PaymentLinkError("NOT_FOUND"))
    ELSE Done(links, Response(0, "PENDING"), NoEvents)

(* A variant of the rest of the check route whose storage update inserts a
   record when the id is missing. *)
postCheckCompleteUpserts(links, p, fetched, date) ==
    LET checkResult == checkPaymentPage(fetched)
        present == IF p.id \in DOMAIN links THEN links
                   ELSE createPaymentLink(links, p.id, ViewUser,
                                          [url |-> p.url, amount |-> 100], date)
    IN  IF checkResult.threw
        THEN Failed(links, PaymentLinkError(checkResult.code))
        ELSE Done(updatePaymentLinkStatus(
                      present, p.id,
                      IF checkResult.isActive THEN "active" ELSE "error",
                      checkResult.errorCode, checkResult.transactionNo,
                      checkResult.amountAED, date),
                  Response(200, "NONE"),
                  broadcastUpdate("payment_link_update", "status_update", p.id))

(* The rest of the check route, from the completion of the fetch; p is the
   link the route found before the fetch. *)
postCheckComplete(links, p, fetched, date) ==
    LET checkResult == checkPaymentPage(fetched)
    IN  IF checkResult.threw
        THEN Failed(links, PaymentLinkError(checkResult.code))
        ELSE IF p.id \notin DOMAIN links THEN Failed(links, StorageError)
        ELSE Done(updatePaymentLinkStatus(
                      links, p.id,
                      IF checkResult.isActive THEN "active" ELSE "error",
                      checkResult.errorCode, checkResult.transactionNo,
                      checkResult.amountAED, date),
                  Response(200, "NONE"),
                  broadcastUpdate("payment_link_update", "status_update", p.id))

(* POST /api/payment-links/:id/archive *)
postArchive(links, caller, id) ==
    IF caller = Anonymous THEN Failed(links, Unauthenticated)
    ELSE IF ~OwnedBy(links, id, caller) THEN Failed(links, StorageError)
    ELSE Done(archivePaymentLink(links, id),
              Response(200, "NONE"),
              broadcastUpdate("payment_link_update", "archive", id))

(* POST /api/payment-links/:id/renew; url = Null is a body without url. *)
postRenew(links, caller, id, url, date) ==
    IF caller = Anonymous THEN Failed(links, Unauthenticated)
    ELSE IF url = Null THEN Failed(links, PaymentLinkError("VALIDATION_ERROR"))
    ELSE IF id \notin getPaymentLinks(links, caller)
    THEN Failed(links, PaymentLinkError("NOT_FOUND"))
    ELSE Done(updatePaymentLinkStatus(
                  updatePaymentLinkUrl(links, id, url),
                  id, "active", Null, Null, Null, date),
              Response(200, "NONE"),
              broadcastUpdate("payment_link_update", "renew", id))

--------------------------------------------------------------------------
(* The server's steps *)

ViewIdle == UNCHANGED <<cache, requests, elapsed>>

ProberIdle == UNCHANGED <<fetchedPage, probeResult>>

ServerIdle == UNCHANGED <<paymentLinks, currentLinkId, now, probes>>

ChannelIdle == UNCHANGED <<clients, published>>

SocketIdle ==
    UNCHANGED <<ws, socks, reconnectAttempts, timers, mounted, activations,
                failures>>

ClientIdle == SocketIdle /\ UNCHANGED stale

InboxIdle == UNCHANGED inbox

(* What a step of the fan-out channel leaves alone. *)
OutsideChannel ==
    ServerIdle /\ ViewIdle /\ ProberIdle /\ ClientIdle /\ InboxIdle

(* What a step of the browser's connection leaves alone. *)
OutsideClient ==
    ServerIdle /\ ViewIdle /\ ProberIdle /\ ChannelIdle /\ InboxIdle

(* The browser's sockets that are open: client.send of broadcastUpdate
   reaches each of them. *)
Listening == {k \in DOMAIN socks : socks[k] = "OPEN"}

(* The events a route broadcast are on their way to every open socket. *)
Notify(events) ==
    inbox' = inbox \cup {[to |-> k, event |-> events[i]] :
                            k \in Listening, i \in DOMAIN events}

CreateLink(caller, valid, link) ==
    /\ currentLinkId <= MaxLinks
    /\ LET r == postCreate(paymentLinks, currentLinkId, caller, valid, link, now)
       IN  /\ paymentLinks' = r.links
           /\ currentLinkId' =
                  IF r.response.status = 201 THEN currentLinkId + 1
                  ELSE currentLinkId
           /\ Notify(r.events)
    /\ UNCHANGED <<now, probes>>
    /\ ViewIdle /\ ProberIdle /\ ChannelIdle /\ ClientIdle

DeleteLink(caller, id) ==
    /\ LET r == deleteLink(paymentLinks, caller, id)
       IN  paymentLinks' = r.links /\ Notify(r.events)
    /\ UNCHANGED <<currentLinkId, now, probes>>
    /\ ViewIdle /\ ProberIdle /\ ChannelIdle /\ ClientIdle

(* The check route reaches its await of the fetch, or ends before it. *)
Suspend(caller, id) ==
    IF postCheckLookup(paymentLinks, caller, id).response.code = "PENDING"
    THEN /\ Cardinality(probes) < MaxProbes
         /\ probes' = probes \cup {[id |-> id, url |-> paymentLinks[id].url]}
    ELSE UNCHANGED probes

(* A check requested directly through the route, by any caller. *)
CheckRequest(caller, id) ==
    /\ Suspend(caller, id)
    /\ UNCHANGED <<paymentLinks, currentLinkId, now>>
    /\ ViewIdle /\ ProberIdle /\ ChannelIdle /\ ClientIdle /\ InboxIdle

(* The fetch of a suspended check route completes. *)
CheckComplete(p, fetched) ==
    /\ p \in probes
    /\ probes' = probes \ {p}
    /\ LET r == postCheckComplete(paymentLinks, p, fetched, now)
       IN  paymentLinks' = r.links /\ Notify(r.events)
    /\ UNCHANGED <<currentLinkId, now>>
    /\ ViewIdle /\ ProberIdle /\ ChannelIdle /\ ClientIdle

ArchiveLink(caller, id) ==
    /\ LET r == postArchive(paymentLinks, caller, id)
       IN  paymentLinks' = r.links /\ Notify(r.events)
    /\ UNCHANGED <<currentLinkId, now, probes>>
    /\ ViewIdle /\ ProberIdle /\ ChannelIdle /\ ClientIdle

RenewLink(caller, id, url) ==
    /\ LET r == postRenew(paymentLinks, caller, id, url, now)
       IN  paymentLinks' = r.links /\ Notify(r.events)
    /\ UNCHANGED <<currentLinkId, now, probes>>
    /\ ViewIdle /\ ProberIdle /\ ChannelIdle /\ ClientIdle

(* Time passes between two reads of new Date(). *)
AdvanceClock ==
    /\ now < MaxTime
    /\ now' = now + 1
    /\ UNCHANGED <<paymentLinks, currentLinkId, probes>>
    /\ ViewIdle /\ ProberIdle /\ ChannelIdle /\ ClientIdle /\ InboxIdle

--------------------------------------------------------------------------
(* The dashboard of ViewUser: usePaymentLinks and PaymentLinkGrid *)

(* GET /api/payment-links *)
getList(links, caller) ==
    IF caller = Anonymous THEN Failed(links, Unauthenticated)
    ELSE Done(links, Response(200, "NONE"), NoEvents)

(* The data of the query ["/api/payment-links"]: the caller's links as the
   GET route returns them. *)
CachedList(links, userId) ==
    [id \in getPaymentLinks(links, userId) |-> links[id]]

(* The delay of the setInterval of PaymentLinkGrid, in ms. *)
INTERVAL == 5000

(* The effect of PaymentLinkGrid has links among its dependencies: when the
   query's data is replaced by a list that differs, the effect's cleanup
   clears the interval and the effect sets a new one.  Data equal to the
   old is kept as it is, and the interval with it. *)
restartsInterval(old, new) == new # old

(* The query ["/api/payment-links"] runs again and its data replaces the
   cached list. *)
Refetch ==
    /\ getList(paymentLinks, ViewUser).response.status = 200
    /\ cache' = CachedList(paymentLinks, ViewUser)
    /\ elapsed' = IF restartsInterval(cache, cache') THEN 0 ELSE elapsed
    /\ UNCHANGED <<paymentLinks, currentLinkId, now, probes, requests>>
    /\ ProberIdle /\ ChannelIdle /\ SocketIdle /\ InboxIdle
    /\ stale' = FALSE

(* Half the interval's delay passes without the interval being cleared;
   time does not pass the moment the interval is due. *)
Elapse ==
    /\ elapsed < INTERVAL
    /\ elapsed' = elapsed + INTERVAL \div 2
    /\ UNCHANGED <<paymentLinks, currentLinkId, now, probes, cache, requests>>
    /\ ProberIdle /\ ChannelIdle /\ ClientIdle /\ InboxIdle

(* links.forEach of the interval callback: the links it calls checkStatus
   for. *)
TickSelection(links) == {id \in DOMAIN links : ~links[id].archived}

(* One firing of the 5 s interval of PaymentLinkGrid. *)
Tick ==
    /\ elapsed >= INTERVAL
    /\ elapsed' = 0
    /\ requests' = requests \cup TickSelection(cache)
    /\ UNCHANGED <<paymentLinks, currentLinkId, now, probes, cache>>
    /\ ProberIdle /\ ChannelIdle /\ ClientIdle /\ InboxIdle

(* A check request of the interval reaches the server. *)
CheckFromView(id) ==
    /\ id \in requests
    /\ requests' = requests \ {id}
    /\ Suspend(ViewUser, id)
    /\ UNCHANGED <<paymentLinks, currentLinkId, now, cache, elapsed>>
    /\ ProberIdle /\ ChannelIdle /\ ClientIdle /\ InboxIdle

(* checkStatus rejects when the response is not ok. *)
checkStatusRejects(response) == response.status # 200

(* The catch of the interval callback: a rejection is logged as an error
   unless its message holds NOT_FOUND.  The message is taken to carry the
   code of the response body, the most the request helper can put in it. *)
logsCheckError(response) ==
    checkStatusRejects(response) /\ response.code # "NOT_FOUND"

--------------------------------------------------------------------------
(* The browser's connection to /ws: connectWebSocket and the effect of
   usePaymentLinks *)

MAX_RECONNECT_ATTEMPTS == 5

RECONNECT_DELAY == 1000

(* ws = null *)
NoSocket == 0

(* failures once an attempt has opened *)
EverOpened == 0 - 1

ClientSocketIds == 1..MaxClientSockets

(* Math.pow(2, n) *)
RECURSIVE pow2(_)
pow2(n) == IF n <= 0 THEN 1 ELSE 2 * pow2(n - 1)

(* A variant of reconnectDelay that grows by the base each time. *)
reconnectDelayLinear(attempts) == RECONNECT_DELAY * attempts

(* RECONNECT_DELAY * Math.pow(2, reconnectAttempts - 1) *)
reconnectDelay(attempts) == RECONNECT_DELAY * pow2(attempts - 1)

(* ws?.readyState is OPEN or CONNECTING: the two early returns of
   connectWebSocket. *)
connectReturnsEarly(w, ss) ==
    w # NoSocket /\ w \in DOMAIN ss /\ ss[w] \in {"OPEN", "CONNECTING"}

NewSocket(ss) == CHOOSE k \in ClientSocketIds \ DOMAIN ss :
                     \A j \in ClientSocketIds \ DOMAIN ss : k <= j

(* connectWebSocket: what it leaves in ws and which sockets exist. *)
connectWebSocket(w, ss) ==
    IF connectReturnsEarly(w, ss) THEN [ws |-> w, socks |-> ss]
    ELSE [ws |-> NewSocket(ss),
          socks |-> [k \in DOMAIN ss \cup {NewSocket(ss)} |->
                        IF k = NewSocket(ss) THEN "CONNECTING" ELSE ss[k]]]

(* The model has a socket left for the call, or the call makes none. *)
CanConnect(w, ss) ==
    connectReturnsEarly(w, ss) \/ ClientSocketIds \ DOMAIN ss # {}

(* A component with usePaymentLinks mounts: its effect calls
   connectWebSocket. *)
Mount ==
    /\ activations < MaxActivations
    /\ CanConnect(ws, socks)
    /\ mounted' = mounted + 1
    /\ activations' = activations + 1
    /\ ws' = connectWebSocket(ws, socks).ws
    /\ socks' = connectWebSocket(ws, socks).socks
    /\ UNCHANGED <<reconnectAttempts, timers, failures, stale>>
    /\ OutsideClient

(* A component with usePaymentLinks unmounts: the cleanup of its effect. *)
Unmount ==
    /\ mounted > 0
    /\ mounted' = mounted - 1
    /\ IF ws # NoSocket /\ socks[ws] = "OPEN"
       THEN /\ socks' = [socks EXCEPT ![ws] = "CLOSING"]
            /\ ws' = NoSocket
       ELSE UNCHANGED <<ws, socks>>
    /\ UNCHANGED <<reconnectAttempts, timers, activations, failures, stale>>
    /\ OutsideClient

(* A variant of SocketOpens that leaves the counter as it is. *)
SocketOpensKeepsCounter(k) ==
    /\ k \in DOMAIN socks
    /\ socks[k] = "CONNECTING"
    /\ socks' = [socks EXCEPT ![k] = "OPEN"]
    /\ failures' = EverOpened
    /\ UNCHANGED <<ws, reconnectAttempts, timers, mounted, activations, stale>>
    /\ OutsideClient

(* ws.onopen of socket k *)
SocketOpens(k) ==
    /\ k \in DOMAIN socks
    /\ socks[k] = "CONNECTING"
    /\ socks' = [socks EXCEPT ![k] = "OPEN"]
    /\ reconnectAttempts' = 0
    /\ failures' = EverOpened
    /\ UNCHANGED <<ws, timers, mounted, activations, stale>>
    /\ OutsideClient

(* A variant of belowCeiling that lets the counter reach one more. *)
belowCeilingInclusive(attempts) == attempts <= MAX_RECONNECT_ATTEMPTS

(* reconnectAttempts < MAX_RECONNECT_ATTEMPTS *)
belowCeiling(attempts) == attempts < MAX_RECONNECT_ATTEMPTS

(* ws.onclose of socket k: a connection attempt that fails, an open
   connection that is lost, or a close that completes. *)
SocketCloses(k) ==
    /\ k \in DOMAIN socks
    /\ socks' = [j \in DOMAIN socks \ {k} |-> socks[j]]
    /\ ws' = NoSocket
    /\ IF belowCeiling(reconnectAttempts)
       THEN /\ BagCardinality(timers) < MaxTimers
            /\ reconnectAttempts' = reconnectAttempts + 1
            /\ timers' = timers (+) SetToBag({reconnectDelay(reconnectAttempts + 1)})
       ELSE UNCHANGED <<reconnectAttempts, timers>>
    /\ failures' = IF socks[k] = "CONNECTING" /\ failures # EverOpened
                   THEN failures + 1 ELSE failures
    /\ UNCHANGED <<mounted, activations, stale>>
    /\ OutsideClient

(* A timer set by onclose fires: connectWebSocket runs. *)
TimerFires(delay) ==
    /\ BagIn(delay, timers)
    /\ CanConnect(ws, socks)
    /\ timers' = timers (-) SetToBag({delay})
    /\ ws' = connectWebSocket(ws, socks).ws
    /\ socks' = connectWebSocket(ws, socks).socks
    /\ UNCHANGED <<reconnectAttempts, mounted, activations, failures, stale>>
    /\ OutsideClient

(* event.data of a message: text that JSON.parse takes, with the type of
   the value it gives, or text it throws on. *)
Incoming ==
    {[parses |-> TRUE, type |-> "payment_link_update"],
     [parses |-> TRUE, type |-> "other"],
     [parses |-> FALSE, type |-> "none"]}

(* A variant of invalidates that does not read the type. *)
invalidatesAnyType(message) == message.parses

(* ws.onmessage calls queryClient.invalidateQueries. *)
invalidates(message) ==
    message.parses /\ message.type = "payment_link_update"

(* ws.onmessage of socket k *)
Receive(k, message) ==
    /\ k \in DOMAIN socks
    /\ socks[k] = "OPEN"
    /\ stale' = (stale \/ invalidates(message))
    /\ SocketIdle
    /\ OutsideClient

ClientInit ==
    /\ ws = NoSocket
    /\ socks = <<>>
    /\ reconnectAttempts = 0
    /\ timers = EmptyBag
    /\ mounted = 0
    /\ activations = 0
    /\ failures = 0
    /\ stale = FALSE

Delays == {reconnectDelay(n) : n \in 1..MAX_RECONNECT_ATTEMPTS}

ClientNext ==
    \/ Mount
    \/ Unmount
    \/ \E k \in ClientSocketIds : SocketOpens(k)
    \/ \E k \in ClientSocketIds : SocketCloses(k)
    \/ \E delay \in Delays : TimerFires(delay)
    \/ \E k \in ClientSocketIds, message \in Incoming : Receive(k, message)
    \/ Refetch

--------------------------------------------------------------------------
(* Inputs *)

NewLinks == [url : Urls, amount : Amounts]

(* Remote pages the checks of the system meet. *)
Pages ==
    { <<"F">>,
      <<"x">>,
      <<"T", " ", "1">>,
      <<"A", " ", "2", "E">>,
      <<"T", " ", "2", "x", "A", " ", "2", " ", "E">> }

Rejected == [kind |-> "rejected", text |-> <<>>]

NotOk == [kind |-> "not_ok", text |-> <<>>]

Ok(text) == [kind |-> "ok", text |-> text]

Fetched == {Rejected, NotOk} \cup {Ok(t) : t \in Pages}

(* Page texts for the prober alone: up to MaxFragments fragments, each one
   symbol or a piece of a token, put one after the other. *)
Symbols == {"F", "T", "A", "E", " ", "1", "2", ",", "x"}

Fragments ==
    {<<c>> : c \in Symbols}
    \cup { <<"T", " ", "1">>, <<"A", " ", "2">>, <<"A", " ", "1", ",", "2", "E">> }

RECURSIVE Concat(_)
Concat(fs) ==
    IF fs = <<>> THEN <<>> ELSE Head(fs) \o Concat(Tail(fs))

Texts ==
    {Concat(fs) : fs \in UNION {[1..n -> Fragments] : n \in 0..MaxFragments}}

--------------------------------------------------------------------------
(* The system *)

Pending == [threw |-> FALSE, code |-> "PENDING", isActive |-> FALSE,
            errorCode |-> Null, transactionNo |-> Null, amountAED |-> Null]

Init ==
    /\ paymentLinks = <<>>
    /\ currentLinkId = 1
    /\ now = 0
    /\ probes = {}
    /\ cache = <<>>
    /\ requests = {}
    /\ fetchedPage = Rejected
    /\ probeResult = Pending
    /\ clients = <<>>
    /\ published = 0
    /\ ClientInit
    /\ inbox = {}
    /\ elapsed = 0

RoutesNext ==
    \/ \E caller \in Callers, valid \in BOOLEAN, link \in NewLinks :
          CreateLink(caller, valid, link)
    \/ \E caller \in Callers, id \in LinkIds : DeleteLink(caller, id)
    \/ \E caller \in Callers, id \in LinkIds : CheckRequest(caller, id)
    \/ \E p \in probes, fetched \in Fetched : CheckComplete(p, fetched)
    \/ \E caller \in Callers, id \in LinkIds : ArchiveLink(caller, id)
    \/ \E caller \in Callers, id \in LinkIds, url \in Urls \cup {Null} :
          RenewLink(caller, id, url)

ServerNext == RoutesNext \/ AdvanceClock

ViewNext ==
    \/ Refetch
    \/ Elapse
    \/ Tick
    \/ \E id \in LinkIds : CheckFromView(id)

Next == ServerNext \/ ViewNext

(* The server and the dashboard of one user. *)
Spec == Init /\ [][Next]_vars

(* The server alone, its routes called by any caller in any order while
   time passes. *)
ServerSpec == Init /\ [][ServerNext]_vars

(* The routes alone at one reading of the clock: every new Date() gives the
   same instant, so lastChecked is the one field that never varies. *)
RoutesSpec == Init /\ [][RoutesNext]_vars

--------------------------------------------------------------------------
(* The prober alone: checkPaymentPage applied to every fetch result over
   Texts. *)

ProberInit ==
    /\ paymentLinks = <<>>
    /\ currentLinkId = 1
    /\ now = 0
    /\ probes = {}
    /\ cache = <<>>
    /\ requests = {}
    /\ fetchedPage \in {Rejected, NotOk} \cup {Ok(t) : t \in Texts}
    /\ probeResult = Pending
    /\ clients = <<>>
    /\ published = 0
    /\ ClientInit
    /\ inbox = {}
    /\ elapsed = 0

Probe ==
    /\ probeResult = Pending
    /\ probeResult' = checkPaymentPage(fetchedPage)
    /\ UNCHANGED <<paymentLinks, currentLinkId, now, probes, cache, requests,
                   fetchedPage, elapsed>>
    /\ ChannelIdle /\ ClientIdle /\ InboxIdle

ProberSpec == ProberInit /\ [][Probe]_vars

--------------------------------------------------------------------------
(* The fan-out channel: the WebSocketServer at /ws and broadcastUpdate *)

SocketIds == 1..MaxSockets

ClientIds(cs) == {cs[i].id : i \in DOMAIN cs}

(* A variant of forEachClient whose send is not inside a try: the first
   failing send ends the loop and leaves broadcastUpdate by exception. *)
RECURSIVE forEachClientUncaught(_, _, _, _)
forEachClientUncaught(cs, i, message, failing) ==
    IF i > Len(cs) THEN [clients |-> cs, threw |-> FALSE]
    ELSE IF cs[i].readyState # "OPEN"
    THEN forEachClientUncaught(cs, i + 1, message, failing)
    ELSE IF cs[i].id \in failing
    THEN [clients |-> cs, threw |-> TRUE]
    ELSE forEachClientUncaught([cs EXCEPT ![i].received = Append(@, message)],
                               i + 1, message, failing)

(* wss.clients.forEach of broadcastUpdate from the i-th client on: a client
   that is OPEN is sent the message; a send that throws (the clients of
   failing) is caught and logged, and the loop goes on. *)
RECURSIVE forEachClient(_, _, _, _)
forEachClient(cs, i, message, failing) ==
    IF i > Len(cs) THEN [clients |-> cs, threw |-> FALSE]
    ELSE IF cs[i].readyState # "OPEN"
    THEN forEachClient(cs, i + 1, message, failing)
    ELSE IF cs[i].id \in failing
    THEN forEachClient(cs, i + 1, message, failing)
    ELSE forEachClient([cs EXCEPT ![i].received = Append(@, message)],
                       i + 1, message, failing)

(* The messages the routes publish. *)
ChangeEvents ==
    {broadcastUpdate("payment_link_update", action, 1)[1] :
        action \in {"create", "delete"}}

(* wss.on('connection'): the handshake of any caller ends with an OPEN
   socket in wss.clients. *)
WsConnect(caller, sid) ==
    /\ Len(clients) < MaxSockets
    /\ sid \notin ClientIds(clients)
    /\ clients' = Append(clients, [id |-> sid, owner |-> caller,
                                   readyState |-> "OPEN", received |-> <<>>])
    /\ UNCHANGED published
    /\ OutsideChannel

(* A close handshake starts on an open socket. *)
WsClosing(i) ==
    /\ i \in DOMAIN clients
    /\ clients[i].readyState = "OPEN"
    /\ clients' = [clients EXCEPT ![i].readyState = "CLOSING"]
    /\ UNCHANGED published
    /\ OutsideChannel

(* The socket is closed and leaves wss.clients. *)
WsClosed(i) ==
    /\ i \in DOMAIN clients
    /\ clients' = [j \in 1..(Len(clients) - 1) |->
                      IF j < i THEN clients[j] ELSE clients[j + 1]]
    /\ UNCHANGED published
    /\ OutsideChannel

(* One call of broadcastUpdate by a route. *)
Publish(message, failing) ==
    /\ published < MaxPublishes
    /\ published' = published + 1
    /\ clients' = forEachClient(clients, 1, message, failing).clients
    /\ OutsideChannel

ChannelNext ==
    \/ \E caller \in {ViewUser, Anonymous}, sid \in SocketIds :
          WsConnect(caller, sid)
    \/ \E i \in DOMAIN clients : WsClosing(i)
    \/ \E i \in DOMAIN clients : WsClosed(i)
    \/ \E message \in ChangeEvents, failing \in SUBSET ClientIds(clients) :
          Publish(message, failing)

(* The fan-out channel alone: sockets come and go between the publishes of
   the routes. *)
ChannelSpec == Init /\ [][ChannelNext]_vars

(* The routes and the fan-out channel: every entry point of the server. *)
EntryNext == RoutesNext \/ ChannelNext

EntrySpec == Init /\ [][EntryNext]_vars

(* The browser's connection alone: components mount and unmount while
   sockets open, close and receive, and timers fire. *)
ClientSpec == Init /\ [][ClientNext]_vars

--------------------------------------------------------------------------
(* Properties *)

Stored(id) == id \in DOMAIN paymentLinks

(* The outcome of a probe, as the spec names it. *)
OutcomeOf(fetched) ==
    LET r == checkPaymentPage(fetched)
    IN  IF ~r.threw /\ r.isActive THEN "Succeeded"
        ELSE IF ~r.threw THEN "Failed"
        ELSE IF r.code = "INVALID_FORMAT" THEN "Malformed"
        ELSE IF r.code = "FETCH_ERROR" THEN "FetchFailed"
        ELSE "Unreachable"

(* Tokens of a page text, stated on the text itself. *)
ContainsMarker(text) == "F" \in {text[i] : i \in DOMAIN text}

(* text[i..j] is a transaction token with its digits at j..: the label, at
   least one whitespace, a digit. *)
HasTransactionToken(text) ==
    \E i \in DOMAIN text :
        /\ text[i] = "T"
        /\ \E j \in (i + 2)..Len(text) :
              /\ \A k \in (i + 1)..(j - 1) : text[k] \in WS
              /\ text[j] \in Digits

HasAmountToken(text) ==
    \E i \in DOMAIN text :
        /\ text[i] = "A"
        /\ \E j \in (i + 2)..Len(text) :
              /\ \A k \in (i + 1)..(j - 1) : text[k] \in WS
              /\ \E m \in (j + 1)..Len(text) :
                    /\ text[m] = "E"
                    /\ \E n \in j..(m - 1) :
                          /\ \A k \in j..n : text[k] \in NumChars
                          /\ \A k \in (n + 1)..(m - 1) : text[k] \in WS

(* value stands in text right after a label and its whitespace, and is made
   of the symbols of S only. *)
TakenFrom(text, label, S, value) ==
    \E i \in DOMAIN text, j \in DOMAIN text :
        /\ text[i] = label
        /\ j >= i + 2
        /\ \A k \in (i + 1)..(j - 1) : text[k] \in WS
        /\ j + Len(value) - 1 <= Len(text)
        /\ value = SubSeq(text, j, j + Len(value) - 1)
        /\ Len(value) >= 1
        /\ \A k \in DOMAIN value : value[k] \in S

Probed == probeResult # Pending /\ fetchedPage.kind = "ok"

(* C1: a renew of an owned link, from any stored state, leaves the link with
   the new URL, status active, and error code, transaction reference and
   collected amount all null. *)
C1_RenewResetsEveryField ==
    [][\A caller \in Users, id \in LinkIds, url \in Urls :
          (id \in getPaymentLinks(paymentLinks, caller)
           /\ RenewLink(caller, id, url))
          => /\ paymentLinks'[id].url = url
             /\ paymentLinks'[id].status = "active"
             /\ paymentLinks'[id].errorCode = Null
             /\ paymentLinks'[id].transactionNo = Null
             /\ paymentLinks'[id].amountAED = Null]_vars

(* C2: in every reachable state every stored link has a non-null error code
   exactly when its status is error. *)
C2_ErrorCodeIffStatusError ==
    \A id \in DOMAIN paymentLinks :
        (paymentLinks[id].errorCode # Null) <=> (paymentLinks[id].status = "error")

C2_Witness ==
    \E id \in DOMAIN paymentLinks :
        /\ paymentLinks[id].status = "error"
        /\ paymentLinks[id].errorCode = GenericErrorCode
        /\ paymentLinks[id].transactionNo # Null

(* C3: a check of a stored link whose probe ends Malformed or FetchFailed
   stores status error with an error code that differs between the two kinds
   and from the code of Failed, and answers without an error. *)
C3_ProbeErrorsAreStored ==
    [][\A p \in probes, fetched \in Fetched :
          (Stored(p.id) /\ CheckComplete(p, fetched)
           /\ OutcomeOf(fetched) \in {"Malformed", "FetchFailed"})
          => /\ paymentLinks'[p.id].status = "error"
             /\ paymentLinks'[p.id].errorCode \notin {Null, GenericErrorCode}
             /\ postCheckComplete(paymentLinks, p, fetched, now).response.status = 200
             /\ \A other \in Fetched :
                   (OutcomeOf(other) \in {"Malformed", "FetchFailed"}
                    /\ OutcomeOf(other) # OutcomeOf(fetched))
                   => postCheckComplete(paymentLinks, p, other, now).links[p.id].errorCode
                         # paymentLinks'[p.id].errorCode]_vars

(* C4: a tick selects no link whose stored archived flag is true at the
   moment of the tick. *)
C4_TickSkipsStoredArchived ==
    [][Tick => \A id \in requests' \ requests :
                  ~(Stored(id) /\ paymentLinks[id].archived)]_vars

(* C5: once a link is archived, no check changes its status, error code,
   last-checked, transaction reference or collected amount, no event is
   broadcast for a probe of it, and it stays in its owner's list. *)
C5_ArchivedIsTerminal ==
    [][\A p \in probes, fetched \in Fetched :
          (Stored(p.id) /\ paymentLinks[p.id].archived
           /\ CheckComplete(p, fetched))
          => /\ Stored(p.id)'
             /\ paymentLinks'[p.id] = paymentLinks[p.id]
             /\ postCheckComplete(paymentLinks, p, fetched, now).events = NoEvents
             /\ p.id \in getPaymentLinks(paymentLinks', paymentLinks[p.id].userId)]_vars

(* C6: a page text that contains the failure marker gives Failed with the
   fixed reason code and neither transaction reference nor amount, whatever
   tokens the text also holds. *)
C6_MarkerGivesFailed ==
    (Probed /\ ContainsMarker(fetchedPage.text))
    => /\ ~probeResult.threw
       /\ ~probeResult.isActive
       /\ probeResult.errorCode = GenericErrorCode
       /\ probeResult.transactionNo = Null
       /\ probeResult.amountAED = Null

C6_Witness ==
    /\ Probed
    /\ ContainsMarker(fetchedPage.text)
    /\ HasTransactionToken(fetchedPage.text)
    /\ HasAmountToken(fetchedPage.text)
    /\ ~probeResult.isActive

(* C7: a page text with no failure marker, no transaction token and no amount
   token, the empty text included, gives Malformed: neither Failed nor
   Succeeded. *)
C7_NoTokenGivesMalformed ==
    (/\ Probed
     /\ ~ContainsMarker(fetchedPage.text)
     /\ ~HasTransactionToken(fetchedPage.text)
     /\ ~HasAmountToken(fetchedPage.text))
    => /\ probeResult.threw
       /\ probeResult.code = "INVALID_FORMAT"

C7_Witness ==
    /\ Probed
    /\ "A" \in {fetchedPage.text[i] : i \in DOMAIN fetchedPage.text}
    /\ "T" \in {fetchedPage.text[i] : i \in DOMAIN fetchedPage.text}
    /\ probeResult.threw
    /\ probeResult.code = "INVALID_FORMAT"

(* C8: a page text with no failure marker and at least one token gives
   Succeeded, with a transaction reference exactly when the text holds a
   transaction token and an amount exactly when it holds an amount token,
   each taken from the text. *)
C8_TokensGiveSucceeded ==
    (/\ Probed
     /\ ~ContainsMarker(fetchedPage.text)
     /\ (HasTransactionToken(fetchedPage.text) \/ HasAmountToken(fetchedPage.text)))
    => /\ ~probeResult.threw
       /\ probeResult.isActive
       /\ probeResult.errorCode = Null
       /\ (probeResult.transactionNo # Null) <=> HasTransactionToken(fetchedPage.text)
       /\ (probeResult.amountAED # Null) <=> HasAmountToken(fetchedPage.text)
       /\ probeResult.transactionNo # Null
             => TakenFrom(fetchedPage.text, "T", Digits, probeResult.transactionNo)
       /\ probeResult.amountAED # Null
             => TakenFrom(fetchedPage.text, "A", NumChars, probeResult.amountAED)

C8_Witness ==
    /\ Probed
    /\ ~HasTransactionToken(fetchedPage.text)
    /\ probeResult.isActive
    /\ probeResult.transactionNo = Null
    /\ probeResult.amountAED = <<"1", ",", "2">>

(* C9: applying a Succeeded outcome to a stored link sets status active and
   error code null, replaces the transaction reference and the collected
   amount by those of the outcome where the outcome has them, and leaves
   each at its stored value where it has not. *)
C9_SucceededKeepsAbsentFields ==
    \A id \in DOMAIN paymentLinks, fetched \in Fetched :
        OutcomeOf(fetched) = "Succeeded"
        => LET found == [id |-> id, url |-> paymentLinks[id].url]
               outcome == checkPaymentPage(fetched)
               old == paymentLinks[id]
               new == postCheckComplete(paymentLinks, found, fetched, now).links[id]
           IN  /\ new.status = "active"
               /\ new.errorCode = Null
               /\ new.transactionNo =
                     IF HasTransactionToken(fetched.text)
                     THEN outcome.transactionNo ELSE old.transactionNo
               /\ new.amountAED =
                     IF HasAmountToken(fetched.text)
                     THEN outcome.amountAED ELSE old.amountAED
               /\ HasTransactionToken(fetched.text) => new.transactionNo # Null
               /\ HasAmountToken(fetched.text) => new.amountAED # Null

C9_Witness ==
    \E id \in DOMAIN paymentLinks :
        /\ paymentLinks[id].status = "active"
        /\ paymentLinks[id].transactionNo = <<"1">>
        /\ paymentLinks[id].amountAED = <<"2">>

(* C10: every probe of a stored link, whatever its outcome, sets the link's
   last-checked to the time of the probe, and last-checked never decreases. *)
C10_EveryProbeUpdatesLastChecked ==
    [][\A p \in probes, fetched \in Fetched :
          (Stored(p.id) /\ CheckComplete(p, fetched))
          => /\ paymentLinks'[p.id].lastChecked = now
             /\ paymentLinks'[p.id].lastChecked >= paymentLinks[p.id].lastChecked]_vars

(* C11: every check of a stored link publishes exactly one event of type
   payment_link_update, for every probe outcome (Succeeded, Failed,
   Malformed, FetchFailed), whether or not the stored status changes. *)
C11_OneEventPerCheck ==
    \A p \in probes, fetched \in Fetched :
        (Stored(p.id)
         /\ OutcomeOf(fetched) \in {"Succeeded", "Failed", "Malformed", "FetchFailed"})
        => LET events == postCheckComplete(paymentLinks, p, fetched, now).events
           IN  /\ Len(events) = 1
               /\ events[1].type = "payment_link_update"
               /\ events[1].id = p.id

(* C12: the completion of one check of a tick, failed or for a link deleted
   since the tick enumerated it, leaves every other check of the tick in
   flight or still to be sent and every other link as stored, and a link
   that is gone from storage is skipped without being treated as an error. *)
C12_FailuresIsolatedPerLink ==
    [][\A p \in probes, fetched \in Fetched :
          CheckComplete(p, fetched)
          => LET done == postCheckComplete(paymentLinks, p, fetched, now)
             IN  /\ probes' = probes \ {p}
                 /\ requests' = requests
                 /\ \A id \in DOMAIN paymentLinks \ {p.id} :
                       id \in DOMAIN paymentLinks'
                       /\ paymentLinks'[id] = paymentLinks[id]
                 /\ ~Stored(p.id)
                       => /\ paymentLinks' = paymentLinks
                          /\ ~logsCheckError(done.response)]_vars

(* C13: a publish hands the message to every client that is open and whose
   send succeeds, exactly once, and to no client that is not open; a send
   that fails keeps the message from that client alone, and the publish
   itself does not fail; sockets may connect and close between publishes. *)
C13_PublishReachesOpenSubscribers ==
    [][\A message \in ChangeEvents, failing \in SUBSET ClientIds(clients) :
          Publish(message, failing)
          => /\ ~forEachClient(clients, 1, message, failing).threw
             /\ Len(clients') = Len(clients)
             /\ \A i \in DOMAIN clients :
                   /\ clients'[i].id = clients[i].id
                   /\ clients'[i].owner = clients[i].owner
                   /\ clients'[i].readyState = clients[i].readyState
                   /\ clients'[i].received =
                         IF clients[i].readyState = "OPEN"
                            /\ clients[i].id \notin failing
                         THEN Append(clients[i].received, message)
                         ELSE clients[i].received]_vars

(* Two publishes, both received by a client that connected after one that
   is still open and got only one of them: the send to the earlier client
   failed once, and the later client was served all the same. *)
C13_Witness ==
    /\ published = 2
    /\ \E i, j \in DOMAIN clients :
          /\ j < i
          /\ clients[j].readyState = "OPEN"
          /\ Len(clients[j].received) = 1
          /\ Len(clients[i].received) = 2

(* The browser's sockets that are connecting or open. *)
Live == {k \in DOMAIN socks : socks[k] \in {"CONNECTING", "OPEN"}}

(* C14: in every reachable state of one client, whatever the order of
   mounts, unmounts, opens, closes and timer firings, at most one of its
   connections is connecting or open. *)
C14_AtMostOneLiveConnection == Cardinality(Live) <= 1

(* C15: once the last component has unmounted, no connection of the client
   is open, and as long as nothing mounts again no reconnect is scheduled
   and no connection is started, not by the close the cleanup caused and
   not by a timer that was pending. *)
C15_ShutdownEndsReconnection ==
    [][mounted' = 0
       => /\ \A k \in DOMAIN socks' : socks'[k] # "OPEN"
          /\ mounted = 0
                => /\ DOMAIN socks' \subseteq DOMAIN socks
                   /\ timers' \sqsubseteq timers]_vars

(* C16, as the spec has it: from the start (disconnected, counter 0), with
   one activation, after 5 connection attempts in a row have failed the
   client is disconnected and no 6th attempt is scheduled or running. *)
C16_NoSixthAttempt ==
    (activations = 1 /\ failures = 5)
    => /\ timers = EmptyBag
       /\ socks = <<>>

(* C16, amended: from the start, with one activation, each of the first 5
   failed attempts in a row is followed by one more attempt, scheduled with
   the delay of its rank or running, the 5th by the 6th after 16000 ms;
   after the 6th failed attempt the counter is at its ceiling, nothing is
   scheduled, no socket is left, and no 7th attempt ever fails. *)
C16_SixAttemptsThenDisconnected ==
    activations = 1
    => /\ failures <= MAX_RECONNECT_ATTEMPTS + 1
       /\ failures \in 1..MAX_RECONNECT_ATTEMPTS
             => /\ reconnectAttempts = failures
                /\ \/ /\ timers = SetToBag({RECONNECT_DELAY * 2^(failures - 1)})
                      /\ socks = <<>>
                   \/ /\ timers = EmptyBag
                      /\ Cardinality(DOMAIN socks) = 1
                      /\ \A k \in DOMAIN socks : socks[k] = "CONNECTING"
       /\ failures = MAX_RECONNECT_ATTEMPTS + 1
             => /\ reconnectAttempts = MAX_RECONNECT_ATTEMPTS
                /\ timers = EmptyBag
                /\ socks = <<>>

C16_Witness ==
    /\ activations = 1
    /\ failures = MAX_RECONNECT_ATTEMPTS + 1
    /\ timers = EmptyBag

(* C17: a close below the ceiling adds one to the counter and schedules one
   reconnection after base * 2^(counter - 1) with the counter as
   incremented and base 1000 ms: 1000, 2000, 4000, 8000, 16000 ms for the
   counters 1 to 5; a close at the ceiling schedules nothing. *)
C17_DelayDoublesPerAttempt ==
    [][\A k \in ClientSocketIds :
          SocketCloses(k)
          => IF reconnectAttempts < 5
             THEN /\ reconnectAttempts' = reconnectAttempts + 1
                  /\ timers' = timers (+) SetToBag({1000 * 2^(reconnectAttempts' - 1)})
                  /\ BagIn(<<1000, 2000, 4000, 8000, 16000>>[reconnectAttempts'],
                           timers')
             ELSE /\ reconnectAttempts' = reconnectAttempts
                  /\ timers' = timers]_vars

C17_Witness ==
    /\ reconnectAttempts = 5
    /\ BagIn(16000, timers)
    /\ socks = <<>>

(* C18: the step that opens a connection leaves the retry counter at 0,
   whatever it was, so that the next reconnection to be scheduled uses the
   base delay and all 5 reconnections are available again. *)
C18_OpenResetsCounter ==
    [][\A k \in ClientSocketIds :
          SocketOpens(k)
          => /\ reconnectAttempts' = 0
             /\ reconnectDelay(reconnectAttempts' + 1) = 1000
             /\ MAX_RECONNECT_ATTEMPTS - reconnectAttempts' = 5]_vars

(* An open connection with the counter at 0 while the timer of a second
   reconnection is still pending: the counter was 2 before the open. *)
C18_Witness ==
    /\ reconnectAttempts = 0
    /\ BagIn(2000, timers)
    /\ \E k \in DOMAIN socks : socks[k] = "OPEN"

(* C19: a message received on an open connection invalidates the cached link
   list when it parses and its type is payment_link_update; a message of
   another type, or one that does not parse, changes nothing: neither the
   cached list and its validity nor the connection. *)
C19_OnlyUpdateMessagesInvalidate ==
    [][\A k \in ClientSocketIds, message \in Incoming :
          Receive(k, message)
          => /\ IF message.parses /\ message.type = "payment_link_update"
                THEN stale'
                ELSE stale' = stale
             /\ UNCHANGED <<cache, ws, socks, reconnectAttempts, timers>>]_vars

C19_Witness ==
    /\ stale
    /\ \E k \in DOMAIN socks : socks[k] = "OPEN"
    /\ reconnectAttempts = 0

(* C20: every entry point turns away a caller without an identity before
   anything else happens: the six routes answer 401 with storage as it was,
   no probe started and no event published, and the streaming endpoint
   registers no socket for such a caller. *)
C20_EveryEntryPointGated ==
    LET rejected == Failed(paymentLinks, Unauthenticated)
    IN  /\ getList(paymentLinks, Anonymous) = rejected
        /\ \A valid \in BOOLEAN, link \in NewLinks :
              postCreate(paymentLinks, currentLinkId, Anonymous, valid, link, now)
                 = rejected
        /\ \A id \in LinkIds :
              /\ deleteLink(paymentLinks, Anonymous, id) = rejected
              /\ postCheckLookup(paymentLinks, Anonymous, id) = rejected
              /\ postArchive(paymentLinks, Anonymous, id) = rejected
              /\ \A url \in Urls \cup {Null} :
                    postRenew(paymentLinks, Anonymous, id, url, now) = rejected
        /\ \A i \in DOMAIN clients : clients[i].owner # Anonymous

--------------------------------------------------------------------------
(* Requests on a link that is missing or belongs to somebody else *)

(* The target id is not a stored link of the caller. *)
NotTargetOf(caller, id) == ~OwnedBy(paymentLinks, id, caller)

(* The result of a route is an error that changed no stored link and
   published no event. *)
Refused(result) ==
    /\ result.response.status >= 400
    /\ result.links = paymentLinks
    /\ result.events = NoEvents

(* The step changes or removes the stored link id. *)
Touches(id) ==
    /\ Stored(id)
    /\ (id \notin DOMAIN paymentLinks' \/ paymentLinks'[id] # paymentLinks[id])

(* The step is a request of the owner of the stored link id, or the
   completion of a check the owner requested. *)
ByOwnerOf(id) ==
    LET owner == paymentLinks[id].userId
    IN  \/ DeleteLink(owner, id)
        \/ ArchiveLink(owner, id)
        \/ \E url \in Urls : RenewLink(owner, id, url)
        \/ \E p \in probes, fetched \in Fetched :
              p.id = id /\ CheckComplete(p, fetched)

(* C21: a check, renew, archive or delete request of a signed-in caller on
   a link that is missing or is not the caller's returns an error (NOT_FOUND
   for the check), leaves every stored link unchanged, suspends in no fetch
   and publishes no event; a fetch begins only for the link's owner, and a
   stored link changes only in a step of its owner's requests. *)
C21_ForeignTargetsAreRefused ==
    /\ [](\A caller \in Users, id \in LinkIds :
             NotTargetOf(caller, id) =>
                /\ Refused(deleteLink(paymentLinks, caller, id))
                /\ Refused(postArchive(paymentLinks, caller, id))
                /\ Refused(postCheckLookup(paymentLinks, caller, id))
                /\ postCheckLookup(paymentLinks, caller, id).response.code
                      = "NOT_FOUND"
                /\ \A url \in Urls \cup {Null} :
                      Refused(postRenew(paymentLinks, caller, id, url, now)))
    /\ [][/\ \A p \in probes' \ probes :
                /\ Stored(p.id)
                /\ CheckRequest(paymentLinks[p.id].userId, p.id)
          /\ \A id \in LinkIds : Touches(id) => ByOwnerOf(id)]_vars

(* A link changed by a check is stored, and one user is not its owner: the
   renewal that user requests is refused. *)
C21_Witness ==
    \E id \in DOMAIN paymentLinks, caller \in Users :
        /\ paymentLinks[id].userId # caller
        /\ paymentLinks[id].status = "error"
        /\ postRenew(paymentLinks, caller, id, <<"u2">>, now).response.code
              = "NOT_FOUND"

--------------------------------------------------------------------------
(* The same probe outcome applied twice *)

(* The fields of a stored link other than lastChecked that a check writes. *)
Verdict(link) ==
    <<link.status, link.errorCode, link.transactionNo, link.amountAED>>

(* C22: for every stored link and every result of the fetch, the check
   route completed twice in succession with that result stores the same
   status, errorCode, transactionNo and amountAED as the route completed
   once, at the same reading of the clock or at a later one; lastChecked
   alone may differ. *)
C22_SameOutcomeTwiceIsOnce ==
    \A id \in DOMAIN paymentLinks, fetched \in Fetched :
    \A later \in {now, MaxTime} :
        LET found == [id |-> id, url |-> paymentLinks[id].url]
            once == postCheckComplete(paymentLinks, found, fetched, now).links
            twice == postCheckComplete(once, found, fetched, later).links
        IN  /\ Verdict(twice[id]) = Verdict(once[id])
            /\ \A other \in DOMAIN paymentLinks \ {id} :
                  twice[other] = once[other]
            /\ DOMAIN twice = DOMAIN once

(* A stored link carries the verdict of a failed page, and a page with a
   transaction number is about to be applied to it: the first application
   changes every one of status, errorCode and transactionNo. *)
C22_Witness ==
    \E id \in DOMAIN paymentLinks, fetched \in Fetched :
        LET found == [id |-> id, url |-> paymentLinks[id].url]
            once == postCheckComplete(paymentLinks, found, fetched, now).links
        IN  /\ paymentLinks[id].status = "error"
            /\ paymentLinks[id].errorCode # Null
            /\ OutcomeOf(fetched) = "Succeeded"
            /\ once[id].transactionNo # paymentLinks[id].transactionNo
            /\ once[id].status = "active"

--------------------------------------------------------------------------
(* A renewal during a check in flight *)

(* C24: when the fetch of a check completes for a link whose stored url is
   no longer the url that was fetched, the completion leaves the link's
   status, errorCode, transactionNo and amountAED as the renewal stored
   them. *)
C24_StaleProbeIsNotWritten ==
    [][\A p \in probes, fetched \in Fetched :
          (/\ CheckComplete(p, fetched)
           /\ Stored(p.id)
           /\ paymentLinks[p.id].url # p.url)
          => /\ Stored(p.id)'
             /\ Verdict(paymentLinks'[p.id]) = Verdict(paymentLinks[p.id])]_vars

--------------------------------------------------------------------------
(* A deletion during a check in flight *)

(* The id was handed out by createPaymentLink and is no longer in the map. *)
Deleted(id) == id < currentLinkId /\ ~Stored(id)

(* C25: when the fetch of a check completes for a link deleted meanwhile,
   the route fails with the storage's error (or with the prober's), inserts
   no record, and changes no stored link; the renew route of a deleted id
   is refused the same way; and an id once deleted is never in the map
   again. *)
C25_LateWriteNeverRecreates ==
    /\ [](\A id \in LinkIds, fetched \in Fetched, url \in Urls :
             Deleted(id) =>
                LET late == postCheckComplete(
                                paymentLinks, [id |-> id, url |-> url],
                                fetched, now)
                IN  /\ late.links = paymentLinks
                    /\ late.response.status >= 400
                    /\ late.events = NoEvents
                    /\ \A caller \in Users :
                          Refused(postRenew(paymentLinks, caller, id, url, now)))
    /\ [][\A id \in LinkIds : Deleted(id) => Deleted(id)']_vars

(* The fetch of a check is still awaited and its link is deleted. *)
C25_Witness ==
    \E p \in probes : Deleted(p.id)

--------------------------------------------------------------------------
(* The archived flag *)

(* C27: a link enters the map with archived = FALSE, and a stored link that
   is archived is still archived after every step in which it stays in the
   map: nothing of check, renew or a second archive puts the flag back. *)
C27_ArchivedIsMonotonic ==
    [][\A id \in LinkIds :
          /\ (~Stored(id) /\ Stored(id)') => ~paymentLinks'[id].archived
          /\ (Stored(id) /\ Stored(id)' /\ paymentLinks[id].archived)
                => paymentLinks'[id].archived]_vars

(* An archived link has since been renewed to another url and a check of it
   has stored an error. *)
C27_Witness ==
    \E id \in DOMAIN paymentLinks :
        /\ paymentLinks[id].archived
        /\ paymentLinks[id].url = <<"u2">>
        /\ paymentLinks[id].status = "error"

--------------------------------------------------------------------------
(* Two stored links: what an operation on one leaves alone *)

PairIds == {1, 2}

(* The state after two POST /api/payment-links, by any two users. *)
PairInit ==
    /\ \E first \in Users, second \in Users, link \in NewLinks :
          paymentLinks =
              createPaymentLink(
                  createPaymentLink(<<>>, 1, first, link, 0),
                  2, second, link, 0)
    /\ currentLinkId = 3
    /\ now = 0
    /\ probes = {}
    /\ cache = <<>>
    /\ requests = {}
    /\ fetchedPage = Rejected
    /\ probeResult = Pending
    /\ clients = <<>>
    /\ published = 0
    /\ ClientInit
    /\ inbox = {}
    /\ elapsed = 0

PairNext ==
    \/ \E caller \in Callers, id \in PairIds : DeleteLink(caller, id)
    \/ \E caller \in Callers, id \in PairIds : CheckRequest(caller, id)
    \/ \E p \in probes, fetched \in Fetched : CheckComplete(p, fetched)
    \/ \E caller \in Callers, id \in PairIds : ArchiveLink(caller, id)
    \/ \E caller \in Callers, id \in PairIds, url \in Urls \cup {Null} :
          RenewLink(caller, id, url)

(* The routes on two links that are already stored. *)
PairSpec == PairInit /\ [][PairNext]_vars

(* The step is a check completion, a renewal or an archival of link id. *)
OperatesOn(id) ==
    \/ \E p \in probes, fetched \in Fetched :
          p.id = id /\ CheckComplete(p, fetched)
    \/ \E caller \in Callers, url \in Urls \cup {Null} :
          RenewLink(caller, id, url)
    \/ \E caller \in Callers : ArchiveLink(caller, id)

(* C28: a link that stays in the map keeps its id, userId and amount in
   every step, and a check completion, a renewal or an archival of one
   link leaves every other stored link as it was. *)
C28_IdentityAndOthersUntouched ==
    [][\A id \in PairIds :
          /\ (Stored(id) /\ Stored(id)') =>
                /\ paymentLinks'[id].id = id
                /\ paymentLinks'[id].userId = paymentLinks[id].userId
                /\ paymentLinks'[id].amount = paymentLinks[id].amount
          /\ OperatesOn(id) =>
                \A other \in DOMAIN paymentLinks \ {id} :
                    /\ Stored(other)'
                    /\ paymentLinks'[other] = paymentLinks[other]]_vars

(* Link 1 has been renewed, checked and archived while link 2 of the same
   owner is as it was created. *)
C28_Witness ==
    /\ Stored(1) /\ Stored(2)
    /\ paymentLinks[1].userId = paymentLinks[2].userId
    /\ paymentLinks[1].archived
    /\ paymentLinks[1].status = "error"
    /\ paymentLinks[1].url # paymentLinks[2].url
    /\ paymentLinks[2].status = "active"
    /\ ~paymentLinks[2].archived

--------------------------------------------------------------------------
(* The server and a dashboard whose connection is open *)

(* JSON.stringify({type, data}) of broadcastUpdate as JSON.parse of
   ws.onmessage gives it back. *)
Serialized(event) == [parses |-> TRUE, type |-> event.type]

(* ws.onmessage of an open socket for a message the server sent to it. *)
Deliver(n) ==
    /\ n \in inbox
    /\ n.to \in Listening
    /\ inbox' = inbox \ {n}
    /\ stale' = (stale \/ invalidates(Serialized(n.event)))
    /\ SocketIdle
    /\ ServerIdle /\ ViewIdle /\ ProberIdle /\ ChannelIdle

(* The observer of the invalidated query fetches it again. *)
RefetchInvalidated ==
    /\ stale
    /\ Refetch

(* The state once PaymentLinkGrid has mounted, its socket has opened and
   its query has fetched the list of a store without links. *)
NotifyInit ==
    /\ paymentLinks = <<>>
    /\ currentLinkId = 1
    /\ now = 0
    /\ probes = {}
    /\ cache = <<>>
    /\ requests = {}
    /\ fetchedPage = Rejected
    /\ probeResult = Pending
    /\ clients = <<>>
    /\ published = 0
    /\ ws = 1
    /\ socks = [k \in {1} |-> "OPEN"]
    /\ reconnectAttempts = 0
    /\ timers = EmptyBag
    /\ mounted = 1
    /\ activations = 1
    /\ failures = EverOpened
    /\ stale = FALSE
    /\ inbox = {}
    /\ elapsed = 0

(* The first POST /api/payment-links that succeeds, and those that fail
   before it. *)
CreateFirstLink(caller, valid, link) ==
    /\ currentLinkId = 1
    /\ CreateLink(caller, valid, link)

NotifyNext ==
    \/ \E caller \in Callers, valid \in BOOLEAN, link \in NewLinks :
          CreateFirstLink(caller, valid, link)
    \/ \E caller \in Callers, id \in LinkIds : DeleteLink(caller, id)
    \/ \E caller \in Callers, id \in LinkIds : CheckRequest(caller, id)
    \/ \E p \in probes, fetched \in Fetched : CheckComplete(p, fetched)
    \/ \E caller \in Callers, id \in LinkIds : ArchiveLink(caller, id)
    \/ \E caller \in Callers, id \in LinkIds, url \in Urls \cup {Null} :
          RenewLink(caller, id, url)
    \/ \E n \in inbox : Deliver(n)
    \/ RefetchInvalidated

(* The routes called by any caller on the first link of the store while one
   dashboard stays connected and fetches its list again whenever a message
   has invalidated it. *)
NotifySpec == NotifyInit /\ [][NotifyNext]_vars

(* What the routes called now would hand back. *)
RouteResults ==
    {postCreate(paymentLinks, currentLinkId, caller, valid, link, now) :
        caller \in Callers, valid \in BOOLEAN, link \in NewLinks}
    \cup {deleteLink(paymentLinks, caller, id) :
            caller \in Callers, id \in LinkIds}
    \cup {postArchive(paymentLinks, caller, id) :
            caller \in Callers, id \in LinkIds}
    \cup {postRenew(paymentLinks, caller, id, url, now) :
            caller \in Callers, id \in LinkIds, url \in Urls \cup {Null}}
    \cup {postCheckLookup(paymentLinks, caller, id) :
            caller \in Callers, id \in LinkIds}
    \cup {postCheckComplete(paymentLinks, p, fetched, now) :
            p \in probes, fetched \in Fetched}

(* The links hold the write the event reports. *)
Reflects(event, links) ==
    CASE event.action = "delete" -> event.id \notin DOMAIN links
      [] event.action = "archive" ->
            event.id \in DOMAIN links /\ links[event.id].archived
      [] event.action = "renew" ->
            /\ event.id \in DOMAIN links
            /\ links[event.id].status = "active"
            /\ links[event.id].errorCode = Null
      [] OTHER -> event.id \in DOMAIN links

(* The store holds the write the event reports or a later state of that
   link: archived links stay archived until deleted and deleted ids never
   come back. *)
NotOlderThan(event) ==
    CASE event.action = "delete" -> Deleted(event.id)
      [] event.action = "archive" ->
            Deleted(event.id)
            \/ (Stored(event.id) /\ paymentLinks[event.id].archived)
      [] OTHER -> event.id < currentLinkId

(* C23: a route that hands back an event has answered with success and its
   links hold the write the event reports; a route that answers with an
   error hands back no event and the links unchanged; so every message on
   its way to the dashboard reports a write the store already holds, and
   whenever the dashboard has handled every message and fetched its
   invalidated list again, the cached list is the stored one. *)
C23_EventsFollowTheWrite ==
    /\ \A r \in RouteResults :
          /\ r.response.status >= 400 =>
                r.events = NoEvents /\ r.links = paymentLinks
          /\ \A i \in DOMAIN r.events :
                r.response.status < 400 /\ Reflects(r.events[i], r.links)
    /\ \A n \in inbox : NotOlderThan(n.event)
    /\ (~stale /\ inbox = {}) => cache = CachedList(paymentLinks, ViewUser)

(* The dashboard has handled the messages of a creation, a failed check
   and an archival and has fetched the list again. *)
C23_Witness ==
    /\ ~stale
    /\ inbox = {}
    /\ \E id \in DOMAIN cache :
          cache[id].archived /\ cache[id].status = "error"

--------------------------------------------------------------------------
(* The interval of the dashboard while its list keeps changing *)

(* Checks are requested by the dashboard's interval alone; the other
   routes are called by any caller. *)
LoopNext ==
    \/ \E caller \in Callers, valid \in BOOLEAN, link \in NewLinks :
          CreateFirstLink(caller, valid, link)
    \/ \E caller \in Callers, id \in LinkIds : DeleteLink(caller, id)
    \/ \E p \in probes, fetched \in Fetched : CheckComplete(p, fetched)
    \/ \E caller \in Callers, id \in LinkIds : ArchiveLink(caller, id)
    \/ \E caller \in Callers, id \in LinkIds, url \in Urls \cup {Null} :
          RenewLink(caller, id, url)
    \/ \E n \in inbox : Deliver(n)
    \/ RefetchInvalidated
    \/ Elapse
    \/ Tick
    \/ \E id \in LinkIds : CheckFromView(id)

(* Time passes, an interval that is due fires, a request that was sent
   arrives, a fetch that was started completes, a message that was sent is
   handled and an invalidated query is fetched again. *)
LoopFairness ==
    /\ WF_vars(Elapse)
    /\ WF_vars(Tick)
    /\ \A id \in LinkIds : WF_vars(CheckFromView(id))
    /\ WF_vars(\E p \in probes, fetched \in Fetched : CheckComplete(p, fetched))
    /\ WF_vars(\E n \in inbox : Deliver(n))
    /\ WF_vars(RefetchInvalidated)

(* The connected dashboard with its interval and the server. *)
LoopSpec == NotifyInit /\ [][LoopNext]_vars /\ LoopFairness

(* The link is stored for the dashboard's user and is not archived. *)
Reconciled(id) ==
    /\ Stored(id)
    /\ paymentLinks[id].userId = ViewUser
    /\ ~paymentLinks[id].archived

(* C26: a link of the dashboard's user that from some moment on stays
   stored and not archived is selected by a firing of the interval again and
   again and has its check requested again and again, whatever messages make
   the dashboard fetch its list again in between. *)
C26_IntervalKeepsFiring ==
    \A id \in LinkIds :
        <>[]Reconciled(id) =>
            /\ []<><<Tick /\ id \in TickSelection(cache)>>_vars
            /\ []<><<CheckFromView(id)>>_vars

==========================================================================
